---- MODULE Spec2Model ----
(***************************************************************************)
(* E_Botar: the anonymous ballot submission and tally engine.              *)
(*                                                                         *)
(* The durable store (the Django tables of apps.voting, apps.elections and *)
(* apps.candidates), the process-wide cache, the clock and the requests    *)
(* that run BallotViewSet.submit are the state.  A submission is a         *)
(* sequence of steps of one request; the steps inside                      *)
(* transaction.atomic() write to the request's private write set, which is *)
(* merged into the tables on commit and dropped on rollback.  The requests *)
(* are served in parallel, each by a worker of its own.                    *)
(***************************************************************************)
EXTENDS Integers, Sequences, FiniteSets, Bags, TLC

----------------------------------------------------------------------------
(* Bounds of the model *)

MaxTime == 2            \* the clock runs 0..MaxTime
MaxVotes == 2           \* longest 'votes' list of a submission
MaxAdminOps == 1        \* number of administrative changes in one run
ThrottleNum == 1        \* DEFAULT_THROTTLE_RATES['vote_submit']: requests ...
ThrottleDuration == 1   \* ... per this many clock ticks

----------------------------------------------------------------------------
(* The universe: users, the requests of a run, and the configured records *)

Users == {"u1", "u2"}

\* The requests are numbered in the order they arrive, and the users are
\* interchangeable, so the first request is taken to be that of u1.
Requests == {1, 2}
FirstUser == "u1"

\* SchoolElection rows (id -> row), but for is_active, which administrators
\* change; id 3 is an id with no row
SchoolElection ==
    [e \in {1, 2} |->
        IF e = 1 THEN [title |-> "SY 1", start_date |-> 1, end_date |-> 2]
                 ELSE [title |-> "SY 2", start_date |-> 0, end_date |-> 1]]
ElectionIds == {1, 2, 3}

\* SchoolPosition rows; id 3 is an id with no row
SchoolPosition == {1, 2}
PositionIds == {1, 2, 3}

\* Candidate rows (id -> row): the approved candidates, of which 3 has been
\* deactivated (CandidateAdmin.deactivate_candidates); id 4 is an id with no row
Candidate ==
    [c \in {1, 2, 3} |->
        IF c = 1 THEN [election |-> 1, position |-> 1, is_active |-> TRUE]
        ELSE IF c = 2 THEN [election |-> 1, position |-> 2, is_active |-> TRUE]
        ELSE [election |-> 2, position |-> 1, is_active |-> FALSE]]
CandidateIds == {1, 2, 3, 4}

None == "None"

VARIABLES
    now,                \* timezone.now()
    election_is_active, \* SchoolElection.is_active, per election
    ElectionPosition,   \* rows <<election, position>> of the through table
    db,                 \* the committed rows of the voting tables
    cache,              \* django.core.cache: key -> value
    pc,                 \* per request: where it stands
    req,                \* per request: its data, and in the end its response
    tx,                 \* per request: the write set of its open transaction
    admin_ops,          \* administrative changes made so far
    attempts,           \* per voter under observation: the times of the
                        \* admitted submissions that lie in the throttle's
                        \* window (a record of history; nothing reads it)
    verify_response,    \* the last response of VoteReceiptViewSet.verify
    aggregate_response, \* the last response of a cached accessor of
                        \* VotingDataService
    tally,              \* a call of SortingAlgorithm.quicksort on the
                        \* candidates of a position: its list and its result
    vote_status_response, \* the last response of ResultsViewSet.my_vote_status
    statistics_response,  \* a call of get_election_statistics: the rows it
                          \* read and its result
    memo                \* a function wrapped by memoize_with_key: its cache,
                        \* the calls made and the runs of the function

vars == <<now, election_is_active, ElectionPosition, db, cache,
          pc, req, tx, admin_ops, attempts, verify_response,
          aggregate_response, tally, vote_status_response,
          statistics_response, memo>>

\* what the read-only requests leave behind
reads == <<verify_response, aggregate_response, tally, vote_status_response,
          statistics_response, memo>>

config == <<election_is_active, ElectionPosition, admin_ops>>

----------------------------------------------------------------------------
(* Strings.  A string is its length and an identity among the strings of   *)
(* that length; receipt codes are the 40-character ones.                   *)

ReceiptCodeLen == 40
VerifyMinLen == 32
VerifyMaxLen == 64
MaskLen == 16

Str(len, id) == [len |-> len, id |-> id]

\* hashlib.sha256(receipt_code.encode()).hexdigest(): a 64-character digest
hash_receipt(receipt_code) == [sha256 |-> receipt_code, len |-> 64]

get_masked_receipt_Plain(receipt_code) == receipt_code

\* first 8 and last 8 characters when longer than 16
get_masked_receipt(receipt_code) ==
    IF receipt_code.len > MaskLen
    THEN [head8 |-> receipt_code.id, tail8 |-> receipt_code.id, len |-> 19]
    ELSE receipt_code

----------------------------------------------------------------------------
(* The durable store and transaction.atomic()                              *)

EmptyTables ==
    [VoteReceipt |-> {}, Ballot |-> {}, VoteChoice |-> {},
     AnonVote |-> EmptyBag, ActivityLog |-> EmptyBag]

\* leaving the atomic block normally: the write set becomes visible at once
Commit(tables, written) ==
    [VoteReceipt |-> tables.VoteReceipt \cup written.VoteReceipt,
     Ballot      |-> tables.Ballot \cup written.Ballot,
     VoteChoice  |-> tables.VoteChoice \cup written.VoteChoice,
     AnonVote    |-> tables.AnonVote (+) written.AnonVote,
     ActivityLog |-> tables.ActivityLog (+) written.ActivityLog]

Rollback_KeepsWrites(tables, written) == Commit(tables, written)

\* leaving the atomic block by an exception: the write set is dropped
Rollback(tables, written) == tables

\* what request w reads inside its transaction: committed rows and its own
Visible(w) == Commit(db, tx[w])

UniqueTogether_NotEnforced(rows, user, election) == FALSE

\* unique_together = ['user', 'election'] of VoteReceipt and of Ballot:
\* TRUE when a row of rows already holds the key
UniqueTogether(rows, user, election) ==
    \E row \in rows : row.user = user /\ row.election = election

\* a row with the key written by another open transaction: the INSERT waits
\* for that transaction to end
LockedByOther(w, table, user, election) ==
    \E o \in Requests \ {w} :
        \E row \in tx[o][table] : row.user = user /\ row.election = election

\* uuid.uuid4().hex + uuid.uuid4().hex[:8]: 40 characters, never one handed
\* out before (as an identity: the least one no receipt holds)
generate_receipt_code ==
    LET used == {row.receipt_code.id : row \in db.VoteReceipt} \cup
                UNION {{row.receipt_code.id : row \in tx[o].VoteReceipt} : o \in Requests}
        fresh == CHOOSE k \in 1..(Cardinality(used) + 1) :
                    k \notin used /\ \A j \in 1..(k - 1) : j \in used
    IN Str(ReceiptCodeLen, fresh)

VoteReceipt_save_PlainHash(row) == [row EXCEPT !.receipt_hash = row.receipt_code]

\* VoteReceipt.save: receipt_hash is the digest of receipt_code
VoteReceipt_save(row) ==
    [row EXCEPT !.receipt_hash = hash_receipt(row.receipt_code)]

----------------------------------------------------------------------------
(* SchoolElection *)

is_active_now_IgnoresFlag(e) ==
    SchoolElection[e].start_date <= now /\ now <= SchoolElection[e].end_date

\* SchoolElection.is_active_now
is_active_now(e) ==
    election_is_active[e] /\
    (SchoolElection[e].start_date <= now /\ now <= SchoolElection[e].end_date)

\* SchoolElection.is_finished
is_finished(e) == now > SchoolElection[e].end_date

----------------------------------------------------------------------------
(* The rate limiter: ScopedUserThrottle(scope='vote_submit') over the cache *)

EmptyCache == [k \in {} |-> None]

throttle_key(user) == <<"throttle_vote_submit", user>>

cache_get(key, default) == IF key \in DOMAIN cache THEN cache[key] ELSE default

cache_set(key, value) ==
    [k \in (DOMAIN cache) \cup {key} |-> IF k = key THEN value ELSE cache[k]]

\* the history is newest first; entries that left the window are popped off its end
RECURSIVE throttle_history(_, _)
throttle_history(history, t) ==
    IF history # <<>> /\ history[Len(history)] <= t - ThrottleDuration
    THEN throttle_history(SubSeq(history, 1, Len(history) - 1), t)
    ELSE history

\* allow_request: FALSE once num_requests attempts lie in the window
allow_request(user) ==
    Len(throttle_history(cache_get(throttle_key(user), <<>>), now)) < ThrottleNum

----------------------------------------------------------------------------
(* BallotViewSet.submit *)

TxnSteps == {"create_receipt", "create_ballot", "votes_loop", "log_activity"}

NoRequest ==
    [user |-> None, election_id |-> 0, votes |-> <<>>, receipt_code |-> None,
     had_ballot |-> FALSE, raised |-> None, rolled_back |-> FALSE,
     result |-> None]

\* what is left of a request when it has ended: the response (result, and
\* receipt_code when a ballot was cast), with a note of whether the voter had
\* a ballot when it arrived, of the exception that ended it and of whether
\* rows it had written were rolled back
Response(request, raised, rolled_back, result, receipt_code) ==
    [NoRequest EXCEPT !.had_ballot = request.had_ballot, !.raised = raised,
                      !.rolled_back = rolled_back,
                      !.result = result, !.receipt_code = receipt_code]

\* the except clauses of submit: what the caller gets for an exception that
\* leaves the atomic block
ExceptClause(exc) ==
    IF exc \in {"SchoolPosition.DoesNotExist", "Candidate.DoesNotExist"}
    THEN "InvalidChoice"
    ELSE IF exc = "ValidationError" THEN "BadRequest"
    ELSE "Untyped"

\* the request ends before the transaction was opened
Reject(w, result) ==
    /\ pc' = [pc EXCEPT ![w] = "done"]
    /\ req' = [req EXCEPT ![w] = Response(req[w], None, FALSE, result, None)]
    /\ UNCHANGED <<db, tx>>

\* an exception leaves the atomic block
Abort(w, exc) ==
    /\ db' = Rollback(db, tx[w])
    /\ tx' = [tx EXCEPT ![w] = EmptyTables]
    /\ pc' = [pc EXCEPT ![w] = "done"]
    /\ req' = [req EXCEPT ![w] = Response(req[w], exc, tx[w] # EmptyTables, ExceptClause(exc), None)]

\* the request arrives and passes, or not, the per-user throttle
submit(w, user, election_id) ==
    /\ pc[w] = "pending"
    /\ \A o \in Requests : o < w => pc[o] # "pending"
    /\ w = 1 => user = FirstUser
    /\ LET request == [NoRequest EXCEPT
                          !.user = user, !.election_id = election_id,
                          !.had_ballot = UniqueTogether(db.Ballot, user, election_id)]
       IN IF allow_request(user)
          THEN /\ cache' = cache_set(throttle_key(user),
                              <<now>> \o throttle_history(
                                  cache_get(throttle_key(user), <<>>), now))
               /\ attempts' = IF user \in DOMAIN attempts
                               THEN [attempts EXCEPT ![user] =
                                        <<now>> \o throttle_history(@, now)]
                               ELSE attempts
               /\ pc' = [pc EXCEPT ![w] = "validate"]
               /\ req' = [req EXCEPT ![w] = request]
          ELSE /\ cache' = cache
               /\ attempts' = attempts
               /\ pc' = [pc EXCEPT ![w] = "done"]
               /\ req' = [req EXCEPT ![w] = Response(request, None, FALSE, "TooManyRequests", None)]
    /\ UNCHANGED <<now, config, db, tx, reads>>

validate_SkipsVotedCheck(w) ==
    /\ pc[w] = "validate"
    /\ LET e == req[w].election_id
       IN IF e \notin DOMAIN SchoolElection \/ ~is_active_now(e)
          THEN Reject(w, "ElectionNotActive")
          ELSE /\ pc' = [pc EXCEPT ![w] = "create_receipt"]
               /\ UNCHANGED <<db, req, tx>>
    /\ UNCHANGED <<now, config, cache, attempts, reads>>

validate_TrustsCachedStatus(w) ==
    /\ pc[w] = "validate"
    /\ LET e == req[w].election_id
           key == <<"voting_service", "get_user_voting_status", <<req[w].user, e>>>>
           voted == IF key \in DOMAIN cache
                    THEN cache[key].has_voted
                    ELSE \E b \in db.Ballot : b.user = req[w].user /\ b.election = e
       IN IF e \notin DOMAIN SchoolElection \/ ~is_active_now(e)
          THEN Reject(w, "ElectionNotActive")
          ELSE IF voted
          THEN Reject(w, "AlreadyVoted")
          ELSE /\ pc' = [pc EXCEPT ![w] = "create_receipt"]
               /\ UNCHANGED <<db, req, tx>>
    /\ UNCHANGED <<now, config, cache, attempts, reads>>

\* BallotSubmissionSerializer.validate
validate(w) ==
    /\ pc[w] = "validate"
    /\ LET e == req[w].election_id
       IN IF e \notin DOMAIN SchoolElection
          THEN Reject(w, "ElectionNotActive")
          ELSE IF ~is_active_now(e)
          THEN Reject(w, "ElectionNotActive")
          ELSE IF \E b \in db.Ballot : b.user = req[w].user /\ b.election = e
          THEN Reject(w, "AlreadyVoted")
          ELSE /\ pc' = [pc EXCEPT ![w] = "create_receipt"]
               /\ UNCHANGED <<db, req, tx>>
    /\ UNCHANGED <<now, config, cache, attempts, reads>>

\* VoteReceipt.objects.create(user, election, ip_address)
create_receipt(w) ==
    /\ pc[w] = "create_receipt"
    /\ LET user == req[w].user
           e == req[w].election_id
           row == VoteReceipt_save(
                      [user |-> user, election |-> e,
                       receipt_code |-> generate_receipt_code,
                       receipt_hash |-> None, created_at |-> now])
       IN IF UniqueTogether(Visible(w).VoteReceipt, user, e)
          THEN Abort(w, "IntegrityError(VoteReceipt)")
          ELSE /\ ~LockedByOther(w, "VoteReceipt", user, e)
               /\ tx' = [tx EXCEPT ![w].VoteReceipt = @ \cup {row}]
               /\ req' = [req EXCEPT ![w].receipt_code = row.receipt_code]
               /\ pc' = [pc EXCEPT ![w] = "create_ballot"]
               /\ db' = db
    /\ UNCHANGED <<now, config, cache, attempts, reads>>

create_ballot_OtherReceipt(w) ==
    /\ pc[w] = "create_ballot"
    /\ LET user == req[w].user
           e == req[w].election_id
           row == [user |-> user, election |-> e, receipt |-> generate_receipt_code]
       IN IF UniqueTogether(Visible(w).Ballot, user, e)
          THEN Abort(w, "IntegrityError(Ballot)")
          ELSE /\ ~LockedByOther(w, "Ballot", user, e)
               /\ tx' = [tx EXCEPT ![w].Ballot = @ \cup {row}]
               /\ pc' = [pc EXCEPT ![w] = "votes_loop"]
               /\ UNCHANGED <<db, req>>
    /\ UNCHANGED <<now, config, cache, attempts, reads>>

\* Ballot.objects.create(user, election, receipt, ip_address, user_agent);
\* the row is kept as its voter, its election and the receipt it names
create_ballot(w) ==
    /\ pc[w] = "create_ballot"
    /\ LET user == req[w].user
           e == req[w].election_id
           row == [user |-> user, election |-> e, receipt |-> req[w].receipt_code]
       IN IF UniqueTogether(Visible(w).Ballot, user, e)
          THEN Abort(w, "IntegrityError(Ballot)")
          ELSE /\ ~LockedByOther(w, "Ballot", user, e)
               /\ tx' = [tx EXCEPT ![w].Ballot = @ \cup {row}]
               /\ pc' = [pc EXCEPT ![w] = "votes_loop"]
               /\ UNCHANGED <<db, req>>
    /\ UNCHANGED <<now, config, cache, attempts, reads>>

\* Candidate.objects.get(id=..., election=..., position=..., is_active=True)
Candidate_get(candidate_id, election, position) ==
    /\ candidate_id \in DOMAIN Candidate
    /\ Candidate[candidate_id].election = election
    /\ Candidate[candidate_id].position = position
    /\ Candidate[candidate_id].is_active

anonymize_WithVoter(choice) ==
    IF ~choice.anonymized
    THEN [choice  |-> [choice EXCEPT !.anonymized = TRUE],
          created |-> SetToBag({[election  |-> choice.ballot[2],
                                 position  |-> choice.position,
                                 candidate |-> choice.candidate,
                                 voter     |-> choice.ballot[1]]})]
    ELSE [choice |-> choice, created |-> EmptyBag]

anonymize_Always(choice) ==
    [choice  |-> [choice EXCEPT !.anonymized = TRUE],
     created |-> SetToBag({[election  |-> choice.ballot[2],
                            position  |-> choice.position,
                            candidate |-> choice.candidate]})]

anonymize_NoAnonVote(choice) ==
    [choice |-> [choice EXCEPT !.anonymized = TRUE], created |-> EmptyBag]

\* VoteChoice.anonymize: the choice as saved, and the AnonVote rows created
anonymize(choice) ==
    IF ~choice.anonymized
    THEN [choice  |-> [choice EXCEPT !.anonymized = TRUE],
          created |-> SetToBag({[election  |-> choice.ballot[2],
                                 position  |-> choice.position,
                                 candidate |-> choice.candidate]})]
    ELSE [choice |-> choice, created |-> EmptyBag]

\* one round of 'for vote_data in votes'.  The list is read one element a
\* round, so the model learns it one element a round; req[w].votes is the part
\* read so far.
create_choice(w, position_id, candidate_id) ==
    /\ pc[w] = "votes_loop"
    /\ Len(req[w].votes) < MaxVotes
    /\ LET e == req[w].election_id
           ballot == <<req[w].user, e>>
           \* in_election notes whether the position was one of the election's
           \* when the pair was looked up; the code does not read it
           vote_data == [position_id |-> position_id, candidate_id |-> candidate_id,
                         in_election |-> <<e, position_id>> \in ElectionPosition]
           choice == [ballot |-> ballot, position |-> position_id,
                      candidate |-> candidate_id, anonymized |-> FALSE]
           done == anonymize(choice)
       IN IF position_id \notin SchoolPosition
          THEN Abort(w, "SchoolPosition.DoesNotExist")
          ELSE IF ~Candidate_get(candidate_id, e, position_id)
          THEN Abort(w, "Candidate.DoesNotExist")
          ELSE IF \E c \in Visible(w).VoteChoice :
                      c.ballot = ballot /\ c.position = position_id
          THEN Abort(w, "IntegrityError(VoteChoice)")
          ELSE /\ tx' = [tx EXCEPT ![w].VoteChoice = @ \cup {done.choice},
                                   ![w].AnonVote = @ (+) done.created]
               /\ req' = [req EXCEPT ![w].votes = Append(@, vote_data)]
               /\ UNCHANGED <<db, pc>>
    /\ UNCHANGED <<now, config, cache, attempts, reads>>

\* VotingDataService.invalidate_voting_cache, called when the list is used up,
\* before the transaction commits: cache.clear()
invalidate_voting_cache(w) ==
    /\ pc[w] = "votes_loop"
    /\ cache' = EmptyCache
    /\ pc' = [pc EXCEPT ![w] = "log_activity"]
    /\ UNCHANGED <<now, config, db, req, tx, attempts, reads>>

log_activity_NoCommit(w) ==
    /\ pc[w] = "log_activity"
    /\ db' = db
    /\ tx' = [tx EXCEPT ![w] = EmptyTables]
    /\ pc' = [pc EXCEPT ![w] = "done"]
    /\ req' = [req EXCEPT ![w] = Response(req[w], None, FALSE, "Success", req[w].receipt_code)]
    /\ UNCHANGED <<now, config, cache, attempts, reads>>

\* ActivityLog.objects.create(...), then the atomic block is left and commits
log_activity(w) ==
    /\ pc[w] = "log_activity"
    /\ LET entry == [user |-> req[w].user, action |-> "vote",
                     resource_id |-> req[w].election_id,
                     receipt_code |-> get_masked_receipt(req[w].receipt_code),
                     positions_voted |-> Len(req[w].votes)]
           written == [tx[w] EXCEPT !.ActivityLog = @ (+) SetToBag({entry})]
       IN db' = Commit(db, written)
    /\ tx' = [tx EXCEPT ![w] = EmptyTables]
    /\ pc' = [pc EXCEPT ![w] = "done"]
    /\ req' = [req EXCEPT ![w] = Response(req[w], None, FALSE, "Success", req[w].receipt_code)]
    /\ UNCHANGED <<now, config, cache, attempts, reads>>

\* a statement of the transaction fails in the storage layer (DatabaseError)
storage_fault(w) ==
    /\ pc[w] \in TxnSteps
    /\ Abort(w, "DatabaseError")
    /\ UNCHANGED <<now, config, cache, attempts, reads>>

----------------------------------------------------------------------------
(* The environment: the clock and the administrators *)

\* time passes; the cache drops the keys whose timeout (the throttle's window,
\* counted from the key's last write) has run out
Tick ==
    /\ now < MaxTime
    /\ now' = now + 1
    /\ cache' = [k \in {k \in DOMAIN cache :
                             k[1] = "throttle_vote_submit"
                                 => cache[k][1] + ThrottleDuration > now + 1}
                    |-> cache[k]]
    /\ attempts' = [u \in DOMAIN attempts |-> throttle_history(attempts[u], now + 1)]
    /\ UNCHANGED <<config, db, pc, req, tx, reads>>

\* an administrator edits SchoolElection.is_active
set_is_active(e) ==
    /\ admin_ops < MaxAdminOps
    /\ election_is_active' = [election_is_active EXCEPT ![e] = ~@]
    /\ admin_ops' = admin_ops + 1
    /\ UNCHANGED <<now, ElectionPosition, db, cache, pc, req, tx, attempts,
                   reads>>

\* SchoolElectionViewSet.remove_position
remove_position(e, p) ==
    /\ admin_ops < MaxAdminOps
    /\ <<e, p>> \in ElectionPosition
    /\ ElectionPosition' = ElectionPosition \ {<<e, p>>}
    /\ admin_ops' = admin_ops + 1
    /\ UNCHANGED <<now, election_is_active, db, cache, pc, req, tx, attempts,
                   reads>>

----------------------------------------------------------------------------
(* The admin site of the voting tables *)

\* choice.anonymize() for each of the choices: the choices as saved and the
\* AnonVote rows created
RECURSIVE anonymize_each(_)
anonymize_each(choices) ==
    IF choices = {} THEN [choices |-> {}, created |-> EmptyBag]
    ELSE LET choice == CHOOSE c \in choices : TRUE
             rest == anonymize_each(choices \ {choice})
         IN [choices |-> {anonymize(choice).choice} \cup rest.choices,
             created |-> anonymize(choice).created (+) rest.created]

\* VoteChoiceAdmin.anonymize_choices on the selected rows
anonymize_choices(queryset) ==
    /\ admin_ops < MaxAdminOps
    /\ queryset # {}
    /\ queryset \subseteq db.VoteChoice
    /\ LET pending == {choice \in queryset : ~choice.anonymized}
           done == anonymize_each(pending)
       IN db' = [db EXCEPT !.VoteChoice = (@ \ pending) \cup done.choices,
                           !.AnonVote = @ (+) done.created]
    /\ admin_ops' = admin_ops + 1
    /\ UNCHANGED <<now, election_is_active, ElectionPosition, cache, pc, req, tx,
                   attempts, reads>>

\* a further call of choice.anonymize() on a stored choice, outside submit;
\* it is counted with the administrative changes
VoteChoice_anonymize(choice) ==
    /\ admin_ops < MaxAdminOps
    /\ choice \in db.VoteChoice
    /\ db' = [db EXCEPT !.VoteChoice = (@ \ {choice}) \cup {anonymize(choice).choice},
                        !.AnonVote = @ (+) anonymize(choice).created]
    /\ admin_ops' = admin_ops + 1
    /\ UNCHANGED <<now, election_is_active, ElectionPosition, cache, pc, req, tx,
                   attempts, reads>>

\* AnonVoteAdmin refuses to add and to change a row; deleting one is left to
\* ModelAdmin, which lets an administrator delete the row selected
AnonVoteAdmin_delete(row) ==
    /\ admin_ops < MaxAdminOps
    /\ row \in BagToSet(db.AnonVote)
    /\ db' = [db EXCEPT !.AnonVote = @ (-) SetToBag({row})]
    /\ admin_ops' = admin_ops + 1
    /\ UNCHANGED <<now, election_is_active, ElectionPosition, cache, pc, req, tx,
                   attempts, reads>>

----------------------------------------------------------------------------
(* VoteReceiptViewSet.verify *)

VerifyLens == {31, 32, 40, 64, 65}
VerifyIds == {1, 2}

\* VoteReceipt.verify_receipt
verify_receipt(receipt, receipt_code) ==
    receipt.receipt_hash = hash_receipt(receipt_code)

\* VoteReceiptVerifySerializer: CharField(max_length=64), then
\* validate_receipt_code; the error of the field, or None
VerifySerializer_errors(receipt_code) ==
    IF receipt_code.len > VerifyMaxLen
    THEN "Ensure this field has no more than 64 characters."
    ELSE IF receipt_code.len < VerifyMinLen
    THEN "Invalid receipt code format"
    ELSE None

\* the three responses of verify
Valid200(receipt) ==
    [status |-> 200, valid |-> TRUE, message |-> "Receipt is valid",
     election |-> SchoolElection[receipt.election].title,
     voted_at |-> receipt.created_at]
Invalid404 == [status |-> 404, valid |-> FALSE, message |-> "Invalid receipt code"]
Invalid400(errors) == [status |-> 400, receipt_code |-> errors]

\* the response of verify for a presented string
verify_result(receipt_code) ==
    IF VerifySerializer_errors(receipt_code) # None
    THEN Invalid400(VerifySerializer_errors(receipt_code))
    ELSE LET found == {r \in db.VoteReceipt : r.receipt_code = receipt_code}
         IN IF found # {} /\ verify_receipt(CHOOSE r \in found : TRUE, receipt_code)
            THEN Valid200(CHOOSE r \in found : TRUE)
            ELSE Invalid404

\* no verification has been asked for yet
NoResponse == [receipt_code |-> Str(0, 0), response |-> [status |-> 0]]

verify(receipt_code) ==
    /\ verify_response' = [receipt_code |-> receipt_code,
                           response |-> verify_result(receipt_code)]
    /\ UNCHANGED <<now, config, db, cache, pc, req, tx, attempts,
                   aggregate_response, tally, vote_status_response,
                   statistics_response, memo>>

----------------------------------------------------------------------------
(* VotingDataService: the accessors cached by cache_result *)

\* the requests that call a cached accessor, each made once
Readers == {1}

\* cache_key of cache_result: the digest of the function's name and arguments
aggregate_key(name, args) == <<"voting_service", name, args>>

\* the wrapper of cache_result: the cached value if there is one, else the
\* value computed now, which is then cached; the result and the cache after
cache_result(name, args, computed) ==
    IF aggregate_key(name, args) \in DOMAIN cache
    THEN [result |-> cache[aggregate_key(name, args)], cache |-> cache]
    ELSE [result |-> computed,
          cache  |-> cache_set(aggregate_key(name, args), computed)]

\* User.objects.filter(profile__isnull=False, is_active=True): the voters
RegisteredVoters == Users

\* the elements of a set of numbers in increasing order
RECURSIVE sorted_ids(_)
sorted_ids(ids) ==
    IF ids = {} THEN <<>>
    ELSE LET least == CHOOSE i \in ids : \A j \in ids : i <= j
         IN <<least>> \o sorted_ids(ids \ {least})

\* AggregationAlgorithm.aggregate(votes_list, key_func=position_id,
\* operation='count'): position_id -> number of the election's AnonVote rows
aggregate_count(election_id) ==
    LET votes == {row \in BagToSet(db.AnonVote) : row.election = election_id}
    IN [pos_id \in {row.position : row \in votes} |->
           BagCardinality([row \in {r \in votes : r.position = pos_id}
                              |-> CopiesIn(row, db.AnonVote)])]

\* VotingDataService.calculate_turnout_percentage, in hundredths of a percent:
\* 0.0 when registered == 0, else round(voters / registered * 100, 2)
calculate_turnout_percentage(voters, registered) ==
    IF registered = 0 THEN 0
    ELSE (2 * voters * 10000 + registered) \div (2 * registered)

\* the body of get_election_statistics, on the committed rows
election_statistics(election_id) ==
    IF election_id \notin DOMAIN SchoolElection
    THEN [election_id |-> election_id,
          total_registered_voters |-> 0,
          total_votes_cast |-> 0,
          unique_voters |-> 0,
          completed_ballots |-> 0,
          turnout_percentage |-> 0,
          votes_by_position |-> <<>>]
    ELSE LET votes == {row \in BagToSet(db.AnonVote) : row.election = election_id}
             total_voters == Cardinality({b \in db.Ballot : b.election = election_id})
             total_registered == Cardinality(RegisteredVoters)
             counts == aggregate_count(election_id)
             order == sorted_ids(DOMAIN counts)
         IN [election_id |-> election_id,
             total_registered_voters |-> total_registered,
             total_votes_cast |->
                 BagCardinality([row \in votes |-> CopiesIn(row, db.AnonVote)]),
             unique_voters |-> total_voters,
             completed_ballots |-> total_voters,
             turnout_percentage |->
                 calculate_turnout_percentage(total_voters, total_registered),
             votes_by_position |->
                 [k \in 1..Len(order) |->
                     [position_id |-> order[k], vote_count |-> counts[order[k]]]]]

\* the body of get_user_voting_status, on the committed rows
user_voting_status(user_id, election_id) ==
    LET ballots == {b \in db.Ballot : b.user = user_id /\ b.election = election_id}
    IN [user_id |-> user_id, election_id |-> election_id,
        has_voted |-> ballots # {},
        receipt |-> IF ballots # {}
                    THEN get_masked_receipt((CHOOSE b \in ballots : TRUE).receipt)
                    ELSE Str(0, 0)]

NoAggregate == [accessor |-> None, args |-> <<>>, has |-> FALSE]

\* a call of a cached accessor by request r
Accessor(r, name, args, computed) ==
    /\ ~aggregate_response[r].has
    /\ cache' = cache_result(name, args, computed).cache
    /\ aggregate_response' =
           [aggregate_response EXCEPT ![r] =
               [accessor |-> name, args |-> args, has |-> TRUE,
                value |-> cache_result(name, args, computed).result]]
    /\ UNCHANGED <<now, config, db, pc, req, tx, attempts, verify_response, tally,
                   vote_status_response, statistics_response, memo>>

get_election_statistics(r, election_id) ==
    Accessor(r, "get_election_statistics", <<election_id>>,
             election_statistics(election_id))

get_user_voting_status(r, user_id, election_id) ==
    Accessor(r, "get_user_voting_status", <<user_id, election_id>>,
             user_voting_status(user_id, election_id))

\* the timeout of a cached value runs out
cache_expire(key) ==
    /\ key \in DOMAIN cache
    /\ key[1] = "voting_service"
    /\ cache' = [k \in (DOMAIN cache) \ {key} |-> cache[k]]
    /\ UNCHANGED <<now, config, db, pc, req, tx, attempts, reads>>

----------------------------------------------------------------------------
(* SortingAlgorithm.quicksort, on a list indexed from 1 *)

\* arr[i], arr[j] = arr[j], arr[i]
swap(arr, i, j) == [arr EXCEPT ![i] = arr[j], ![j] = arr[i]]

\* the loop of _partition from index j on, with the pivot arr[high]; the list
\* and the pivot's index after the final exchange
RECURSIVE partition_loop(_, _, _, _, _)
partition_loop(arr, i, j, high, reverse) ==
    IF j >= high
    THEN [arr |-> swap(arr, i + 1, high), pi |-> i + 1]
    ELSE LET pivot_val == arr[high].vote_count
             current_val == arr[j].vote_count
             compare == IF reverse THEN current_val >= pivot_val
                                   ELSE current_val <= pivot_val
         IN IF compare
            THEN partition_loop(swap(arr, i + 1, j), i + 1, j + 1, high, reverse)
            ELSE partition_loop(arr, i, j + 1, high, reverse)

partition(arr, low, high, reverse) == partition_loop(arr, low - 1, low, high, reverse)

RECURSIVE quicksort_helper(_, _, _, _)
quicksort_helper(arr, low, high, reverse) ==
    IF low < high
    THEN LET p == partition(arr, low, high, reverse)
         IN quicksort_helper(quicksort_helper(p.arr, low, p.pi - 1, reverse),
                             p.pi + 1, high, reverse)
    ELSE arr

quicksort_InPlace(arr, reverse) ==
    [arr |-> quicksort_helper(arr, 1, Len(arr), reverse),
     result |-> quicksort_helper(arr, 1, Len(arr), reverse)]

\* SortingAlgorithm.quicksort(arr, key=vote_count, reverse): the caller's list
\* after the call and the list returned, which is a copy that was sorted, or
\* the list itself when it has at most one element
quicksort(arr, reverse) ==
    IF Len(arr) <= 1
    THEN [arr |-> arr, result |-> arr]
    ELSE [arr |-> arr, result |-> quicksort_helper(arr, 1, Len(arr), reverse)]

----------------------------------------------------------------------------
(* ResultsViewSet.election_results, for one position of an election *)

MaxCandidates == 4      \* candidates of the position
MaxCount == 2           \* AnonVote rows of one candidate

\* AnonVote.objects.filter(election, position).values('candidate')
\* .annotate(vote_count=Count('id')), as a map candidate -> vote_count
vote_map(AnonVote, election, position) ==
    LET rows == {row \in BagToSet(AnonVote) :
                    row.election = election /\ row.position = position}
    IN [c \in {row.candidate : row \in rows} |->
           CopiesIn([election |-> election, position |-> position, candidate |-> c],
                    AnonVote)]

\* sum(vote_map.values())
RECURSIVE sum_values(_)
sum_values(map) ==
    IF DOMAIN map = {} THEN 0
    ELSE LET c == CHOOSE c \in DOMAIN map : TRUE
         IN map[c] + sum_values([d \in (DOMAIN map) \ {c} |-> map[d]])

percentage_Truncated(vote_count, position_total_votes) ==
    IF position_total_votes > 0
    THEN (vote_count * 10000) \div position_total_votes
    ELSE 0

\* round(vote_count / position_total_votes * 100, 2) if position_total_votes > 0
\* else 0, in hundredths of a percent; no quotient of counts this small lies
\* halfway between two hundredths
percentage(vote_count, position_total_votes) ==
    IF position_total_votes > 0
    THEN (2 * vote_count * 10000 + position_total_votes) \div (2 * position_total_votes)
    ELSE 0

\* the entries built for the candidates of the position, in queryset order
RECURSIVE candidates_data(_, _)
candidates_data(position_candidates, map) ==
    IF position_candidates = <<>> THEN <<>>
    ELSE LET candidate == Head(position_candidates)
             vote_count == IF candidate \in DOMAIN map THEN map[candidate] ELSE 0
         IN <<[candidate_id |-> candidate,
               vote_count |-> vote_count,
               percentage |-> percentage(vote_count, sum_values(map)),
               is_winner |-> FALSE,
               rank |-> 0]>>
            \o candidates_data(Tail(position_candidates), map)

is_winner_AnyWithVotes(election_ended, idx, vote_count) ==
    election_ended /\ vote_count > 0

is_winner_Live(election_ended, idx, vote_count) ==
    idx = 1 /\ vote_count > 0

\* election_ended and idx == 1 and candidate_data['vote_count'] > 0
is_winner(election_ended, idx, vote_count) ==
    election_ended /\ idx = 1 /\ vote_count > 0

\* the loop that assigns rank and is_winner to the sorted entries
ranked(sorted, election_ended) ==
    [idx \in 1..Len(sorted) |->
        [sorted[idx] EXCEPT
            !.rank = idx,
            !.is_winner = is_winner(election_ended, idx, sorted[idx].vote_count)]]

NoTally == [called |-> FALSE]

\* the entry of positions_data for the position of tally, and the list that was
\* handed to the sort, before and after the call
election_results ==
    /\ ~tally.called
    /\ "election" \in DOMAIN tally
    /\ LET election_ended == is_finished(tally.election)
           map == vote_map(tally.AnonVote, tally.election, tally.position)
           built == candidates_data(tally.position_candidates, map)
           call == quicksort(built, TRUE)
       IN tally' = [tally EXCEPT !.called = TRUE] @@
                   [built |-> built,
                    arr |-> call.arr,
                    total_votes |-> sum_values(map),
                    candidates |-> ranked(call.result, election_ended)]
    /\ UNCHANGED <<now, config, db, cache, pc, req, tx, attempts,
                   verify_response, aggregate_response, vote_status_response,
                   statistics_response, memo>>

----------------------------------------------------------------------------
(* ResultsViewSet.my_vote_status *)

vote_status_Uncommitted(user, election_id) ==
    IF election_id \notin DOMAIN SchoolElection
    THEN [status |-> 404, detail |-> "Election not found"]
    ELSE LET found == {r \in db.VoteReceipt \cup UNION {tx[w].VoteReceipt : w \in Requests} :
                          r.user = user /\ r.election = election_id}
         IN IF found # {}
            THEN [status |-> 200, election_id |-> election_id,
                  election_title |-> SchoolElection[election_id].title,
                  has_voted |-> TRUE,
                  voted_at |-> (CHOOSE r \in found : TRUE).created_at,
                  receipt_code |->
                      get_masked_receipt((CHOOSE r \in found : TRUE).receipt_code)]
            ELSE [status |-> 200, election_id |-> election_id,
                  election_title |-> SchoolElection[election_id].title,
                  has_voted |-> FALSE]

\* the response for the authenticated user and an election_id: the first
\* committed VoteReceipt of the user in the election decides; without one,
\* voted_at and receipt_code are None (here: absent)
vote_status(user, election_id) ==
    IF election_id \notin DOMAIN SchoolElection
    THEN [status |-> 404, detail |-> "Election not found"]
    ELSE LET found == {r \in db.VoteReceipt :
                          r.user = user /\ r.election = election_id}
         IN IF found # {}
            THEN [status |-> 200, election_id |-> election_id,
                  election_title |-> SchoolElection[election_id].title,
                  has_voted |-> TRUE,
                  voted_at |-> (CHOOSE r \in found : TRUE).created_at,
                  receipt_code |->
                      get_masked_receipt((CHOOSE r \in found : TRUE).receipt_code)]
            ELSE [status |-> 200, election_id |-> election_id,
                  election_title |-> SchoolElection[election_id].title,
                  has_voted |-> FALSE]

\* no status has been asked for yet
NoVoteStatus == [user |-> None, election_id |-> 0, response |-> [status |-> 0]]

my_vote_status(user, election_id) ==
    /\ vote_status_response' = [user |-> user, election_id |-> election_id,
                                response |-> vote_status(user, election_id)]
    /\ UNCHANGED <<now, config, db, cache, pc, req, tx, attempts, verify_response,
                   aggregate_response, tally, statistics_response, memo>>

----------------------------------------------------------------------------
(* ResultsViewSet.statistics and ElectionDataService.get_election_statistics *)

\* Candidate.objects.filter(election, position_id, is_active=True).count()
candidates_count(election_id, position_id) ==
    Cardinality({c \in DOMAIN Candidate :
                    /\ Candidate[c].election = election_id
                    /\ Candidate[c].position = position_id
                    /\ Candidate[c].is_active})

\* position_stats as the view builds it from the statistics: without votes,
\* an entry with 0 votes for every position of the election; with votes, the
\* loop over votes_by_position only advances vote_data and position_id, and
\* the one append that follows it uses their last values
position_stats(election_id, stats) ==
    IF stats.votes_by_position = <<>>
    THEN LET order == sorted_ids({ep[2] : ep \in {x \in ElectionPosition : x[1] = election_id}})
         IN [k \in 1..Len(order) |->
                [position_id |-> order[k], total_votes |-> 0,
                 candidates_count |-> candidates_count(election_id, order[k])]]
    ELSE LET vote_data == stats.votes_by_position[Len(stats.votes_by_position)]
         IN <<[position_id |-> vote_data.position_id,
               total_votes |-> vote_data.vote_count,
               candidates_count |-> candidates_count(election_id, vote_data.position_id)]>>

\* the response of the view, given what the cached accessor returned
statistics_result(election_id, stats) ==
    IF election_id \notin DOMAIN SchoolElection
    THEN [status |-> 404, detail |-> "Election not found"]
    ELSE [status |-> 200,
          election_id |-> election_id,
          election_title |-> SchoolElection[election_id].title,
          total_voters |-> stats.unique_voters,
          total_votes |-> stats.total_votes_cast,
          total_positions |-> Len(stats.votes_by_position),
          total_eligible_voters |-> stats.total_registered_voters,
          turnout_percentage |-> stats.turnout_percentage,
          position_statistics |-> position_stats(election_id, stats)]

NoStatistics == [called |-> FALSE]

\* GET statistics?election_id=...: a missing election is answered before the
\* cached accessor is called
statistics(election_id) ==
    /\ ~statistics_response.called
    /\ LET call == cache_result("get_election_statistics", <<election_id>>,
                                election_statistics(election_id))
       IN /\ cache' = IF election_id \in DOMAIN SchoolElection
                      THEN call.cache ELSE cache
          /\ statistics_response' =
                 [called |-> TRUE, accessor |-> "ResultsViewSet.statistics",
                  election_id |-> election_id,
                  response |-> statistics_result(election_id, call.result)]
    /\ UNCHANGED <<now, config, db, pc, req, tx, attempts, verify_response,
                   aggregate_response, tally, vote_status_response, memo>>

\* the body of ElectionDataService.get_election_statistics, on the committed
\* rows
election_service_statistics(election_id) ==
    IF election_id \notin DOMAIN SchoolElection
    THEN [election_id |-> election_id, total_votes |-> 0, total_voters |-> 0,
          total_candidates |-> 0, total_positions |-> 0, turnout_percentage |-> 0]
    ELSE LET votes == {row \in BagToSet(db.AnonVote) : row.election = election_id}
             total_voters == Cardinality({b \in db.Ballot : b.election = election_id})
             ballots_count == Cardinality({b \in db.Ballot : b.election = election_id})
         IN [election_id |-> election_id,
             total_votes |->
                 BagCardinality([row \in votes |-> CopiesIn(row, db.AnonVote)]),
             total_voters |-> total_voters,
             total_candidates |->
                 Cardinality({c \in DOMAIN Candidate :
                                 Candidate[c].election = election_id
                                     /\ Candidate[c].is_active}),
             total_positions |->
                 Cardinality({ep \in ElectionPosition : ep[1] = election_id}),
             turnout_percentage |->
                 IF ballots_count > 0
                 THEN (2 * total_voters * 10000 + ballots_count) \div (2 * ballots_count)
                 ELSE 0]

\* ElectionDataService.get_election_statistics behind its own cache_result,
\* whose keys start with election_service_
ElectionDataService_get_election_statistics(election_id) ==
    /\ ~statistics_response.called
    /\ LET key == <<"election_service", "get_election_statistics", <<election_id>>>>
           result == IF key \in DOMAIN cache THEN cache[key]
                     ELSE election_service_statistics(election_id)
       IN /\ cache' = IF key \in DOMAIN cache THEN cache ELSE cache_set(key, result)
          /\ statistics_response' =
                 [called |-> TRUE,
                  accessor |-> "ElectionDataService.get_election_statistics",
                  election_id |-> election_id,
                  response |-> [status |-> 200] @@ result]
    /\ UNCHANGED <<now, config, db, pc, req, tx, attempts, verify_response,
                   aggregate_response, tally, vote_status_response, memo>>

----------------------------------------------------------------------------
(* MemoizationAlgorithm.memoize_with_key around calculate_turnout_percentage *)

MaxCalls == 4           \* calls and cache_clear operations in one run

\* the numbers passed as voters and registered
MemoArgs == {0, 1, 2}

\* str(arg) of a natural number: its decimal digits
RECURSIVE str(_)
str(arg) == IF arg < 10 THEN <<arg>> ELSE str(arg \div 10) \o <<arg % 10>>

\* '|'.join(key_parts), the separator written as -1
RECURSIVE join(_)
join(key_parts) ==
    IF Len(key_parts) = 0 THEN <<>>
    ELSE IF Len(key_parts) = 1 THEN key_parts[1]
    ELSE key_parts[1] \o <<-1>> \o join(Tail(key_parts))

generate_hash_key_FirstOnly(args) == [md5 |-> str(args[1])]

\* MemoizationAlgorithm.generate_hash_key(*args): the MD5 digest of the
\* arguments' str() joined by '|'
generate_hash_key(args) ==
    [md5 |-> join([k \in 1..Len(args) |-> str(args[k])])]

\* the dictionary of the decorator is empty, nothing has been called
NoMemo == [cache |-> [k \in {} |-> 0], calls |-> 0, executed |-> {},
           called |-> FALSE]

\* wrapper(voters, registered): the function runs when the key is not in the
\* dictionary; executed notes the argument tuples it ran for since the
\* dictionary was last cleared, ran whether this call ran it
memoize_with_key_wrapper(voters, registered) ==
    /\ memo.calls < MaxCalls
    /\ LET cache_key == generate_hash_key(<<voters, registered>>)
           miss == cache_key \notin DOMAIN memo.cache
           stored == IF miss
                     THEN [k \in DOMAIN memo.cache \cup {cache_key} |->
                              IF k = cache_key
                              THEN calculate_turnout_percentage(voters, registered)
                              ELSE memo.cache[k]]
                     ELSE memo.cache
       IN memo' = [cache |-> stored,
                   calls |-> memo.calls + 1,
                   executed |-> IF miss THEN memo.executed \cup {<<voters, registered>>}
                                ELSE memo.executed,
                   called |-> TRUE,
                   args |-> <<voters, registered>>,
                   ran |-> miss,
                   result |-> stored[cache_key]]
    /\ UNCHANGED <<now, config, db, cache, pc, req, tx, attempts, verify_response,
                   aggregate_response, tally, vote_status_response,
                   statistics_response>>

\* wrapper.cache_clear()
cache_clear ==
    /\ memo.calls < MaxCalls
    /\ memo' = [cache |-> [k \in {} |-> 0], calls |-> memo.calls + 1,
                executed |-> {}, called |-> FALSE]
    /\ UNCHANGED <<now, config, db, cache, pc, req, tx, attempts, verify_response,
                   aggregate_response, tally, vote_status_response,
                   statistics_response>>

----------------------------------------------------------------------------
(* Specifications *)

\* the state of a new installation, but for the voters under observation
InitStore ==
    /\ now = 0
    /\ election_is_active = [e \in DOMAIN SchoolElection |-> TRUE]
    /\ ElectionPosition = {<<1, 1>>, <<1, 2>>}
    /\ db = EmptyTables
    /\ cache = EmptyCache
    /\ pc = [w \in Requests |-> "pending"]
    /\ req = [w \in Requests |-> NoRequest]
    /\ tx = [w \in Requests |-> EmptyTables]
    /\ admin_ops = 0
    /\ verify_response = NoResponse
    /\ aggregate_response = [r \in Readers |-> NoAggregate]
    /\ vote_status_response = NoVoteStatus
    /\ statistics_response = NoStatistics
    /\ memo = NoMemo
    /\ tally = NoTally

Init == InitStore /\ attempts = [u \in {} |-> <<>>]

\* the steps of the submissions, and the clock
Submissions ==
    \/ \E w \in Requests, user \in Users, election_id \in ElectionIds :
           submit(w, user, election_id)
    \/ \E w \in Requests : validate(w)
    \/ \E w \in Requests : create_receipt(w)
    \/ \E w \in Requests : create_ballot(w)
    \/ \E w \in Requests, p \in PositionIds, c \in CandidateIds : create_choice(w, p, c)
    \/ \E w \in Requests : invalidate_voting_cache(w)
    \/ \E w \in Requests : log_activity(w)
    \/ \E w \in Requests : storage_fault(w)
    \/ Tick

Next ==
    \/ Submissions
    \/ \E e \in DOMAIN SchoolElection : set_is_active(e)
    \/ \E e \in DOMAIN SchoolElection, p \in SchoolPosition : remove_position(e, p)

Spec == Init /\ [][Next]_vars

\* the submissions with nobody changing the configuration, and the receipt
\* being verified at any moment
NextVerify ==
    \/ Submissions
    \/ \E len \in VerifyLens, id \in VerifyIds : verify(Str(len, id))

SpecVerify == Init /\ [][NextVerify]_vars

\* the submissions, and the voters asking for their status
NextStatus ==
    \/ Submissions
    \/ \E user \in Users, election_id \in ElectionIds : my_vote_status(user, election_id)

SpecStatus == Init /\ [][NextStatus]_vars

\* the submissions, and one request for the statistics of an election
NextStatistics ==
    \/ Submissions
    \/ \E election_id \in ElectionIds : statistics(election_id)
    \/ \E election_id \in ElectionIds :
           ElectionDataService_get_election_statistics(election_id)

SpecStatistics == Init /\ [][NextStatistics]_vars

\* the submissions, and further calls of anonymize on stored choices, one by
\* one or by the bulk action of the administrator
NextAnonymize ==
    \/ Submissions
    \/ \E queryset \in SUBSET db.VoteChoice : anonymize_choices(queryset)
    \/ \E choice \in db.VoteChoice : VoteChoice_anonymize(choice)

SpecAnonymize == Init /\ [][NextAnonymize]_vars

\* the submissions, and an administrator at the admin site of the voting tables
NextAdmin ==
    \/ Submissions
    \/ \E queryset \in SUBSET db.VoteChoice : anonymize_choices(queryset)
    \/ \E row \in BagToSet(db.AnonVote) : AnonVoteAdmin_delete(row)

SpecAdmin == Init /\ [][NextAdmin]_vars

\* calls of the memoized function and of its cache_clear, in any order
NextMemo ==
    \/ \E voters \in MemoArgs, registered \in MemoArgs :
           memoize_with_key_wrapper(voters, registered)
    \/ cache_clear

SpecMemo == Init /\ [][NextMemo]_vars

\* the AnonVote rows of n candidates of a position with the given counts
RECURSIVE AnonVoteRows(_, _, _, _)
AnonVoteRows(election, position, counts, n) ==
    IF n = 0 THEN EmptyBag
    ELSE IF counts[n] = 0 THEN AnonVoteRows(election, position, counts, n - 1)
    ELSE AnonVoteRows(election, position, counts, n - 1)
         (+) [row \in {[election |-> election, position |-> position, candidate |-> n]}
                 |-> counts[n]]

\* a request for the results of an election at some time: the candidates of a
\* position in queryset order, the AnonVote rows of that position and rows of
\* another position and of another election
InitResults ==
    /\ now \in 0..MaxTime
    /\ election_is_active = [e \in DOMAIN SchoolElection |-> TRUE]
    /\ ElectionPosition = {<<1, 1>>, <<1, 2>>}
    /\ db = EmptyTables
    /\ cache = EmptyCache
    /\ pc = [w \in Requests |-> "pending"]
    /\ req = [w \in Requests |-> NoRequest]
    /\ tx = [w \in Requests |-> EmptyTables]
    /\ admin_ops = 0
    /\ attempts = [u \in {} |-> <<>>]
    /\ verify_response = NoResponse
    /\ aggregate_response = [r \in Readers |-> NoAggregate]
    /\ vote_status_response = NoVoteStatus
    /\ statistics_response = NoStatistics
    /\ memo = NoMemo
    /\ \E election \in DOMAIN SchoolElection, n \in 0..MaxCandidates :
           \E counts \in [1..n -> 0..MaxCount],
              others \in SUBSET {[election |-> election, position |-> 2, candidate |-> 1],
                                 [election |-> 3 - election, position |-> 1, candidate |-> 1]} :
               tally = [called |-> FALSE, election |-> election, position |-> 1,
                        position_candidates |-> [c \in 1..n |-> c],
                        AnonVote |-> AnonVoteRows(election, 1, counts, n)
                                         (+) SetToBag(others)]

SpecResults == InitResults /\ [][election_results]_vars

\* the submissions, and the cached accessors called at any moment
NextCache ==
    \/ Submissions
    \/ \E r \in Readers, e \in DOMAIN SchoolElection : get_election_statistics(r, e)
    \/ \E r \in Readers, u \in Users, e \in DOMAIN SchoolElection :
           get_user_voting_status(r, u, e)
    \/ \E key \in DOMAIN cache : cache_expire(key)

SpecCache == Init /\ [][NextCache]_vars

\* the submissions, with the admitted attempts of every voter on record
InitThrottle == InitStore /\ attempts = [u \in Users |-> <<>>]

SpecThrottle == InitThrottle /\ [][Submissions]_vars

----------------------------------------------------------------------------
(* Properties *)

Keys == Users \X ElectionIds

RowsOf(rows, k) == {row \in rows : row.user = k[1] /\ row.election = k[2]}

\* the request ended by the uniqueness constraint of VoteReceipt or Ballot
LostRace(w) ==
    /\ pc[w] = "done"
    /\ req[w].raised \in {"IntegrityError(VoteReceipt)", "IntegrityError(Ballot)"}

\* C1: in every committed state there is at most one Ballot and at most one
\* VoteReceipt for each (voter, election), whatever the interleaving of the
\* submissions.
C1_OneBallotPerVoterElection ==
    \A k \in Keys :
        /\ Cardinality(RowsOf(db.Ballot, k)) <= 1
        /\ Cardinality(RowsOf(db.VoteReceipt, k)) <= 1

\* two submissions for one pair raced: one committed its ballot, the other ran
\* into the constraint
C1_Witness ==
    \E w \in Requests, k \in Keys :
        /\ LostRace(w)
        /\ Cardinality(RowsOf(db.Ballot, k)) = 1
        /\ Cardinality(RowsOf(db.VoteReceipt, k)) = 1
        /\ \E o \in Requests \ {w} :
               pc[o] = "done" /\ req[o].result = "Success" /\ ~req[o].had_ballot

\* C2: of the submissions for one (voter, election) that all passed the
\* 'already voted' check before any committed, each one that does not commit
\* (it is stopped by the uniqueness constraint) ends with AlreadyVoted.
C2_RaceLoserGetsAlreadyVoted ==
    \A w \in Requests : LostRace(w) => req[w].result = "AlreadyVoted"

\* C3: a submission that fails at a step of its transaction leaves the Ballot,
\* VoteReceipt, VoteChoice and AnonVote rows as they were: the failing step
\* changes no committed row, and committed rows change only in the step that
\* ends a submission with Success.
C3_FailedSubmitLeavesRows ==
    [][/\ \A w \in Requests :
              (pc[w] \in TxnSteps /\ pc'[w] = "done" /\ req'[w].result # "Success")
                  => /\ db'.Ballot = db.Ballot
                     /\ db'.VoteReceipt = db.VoteReceipt
                     /\ db'.VoteChoice = db.VoteChoice
                     /\ db'.AnonVote = db.AnonVote
       /\ db' # db => \E w \in Requests :
                          /\ pc[w] = "log_activity"
                          /\ pc'[w] = "done"
                          /\ req'[w].result = "Success"]_vars

\* a submission failed after it had written rows, at a time when rows of an
\* earlier submission were committed
C3_Witness ==
    \E w \in Requests :
        /\ pc[w] = "done"
        /\ req[w].raised # None
        /\ req[w].rolled_back
        /\ db.Ballot # {}
        /\ \A b \in db.Ballot : \E r \in db.VoteReceipt : r.receipt_code = b.receipt

ChoicesFor(rows, e, p, c) ==
    {vc \in rows : vc.ballot[2] = e /\ vc.position = p /\ vc.candidate = c}

\* C4: in every committed state every VoteChoice belongs to a committed Ballot
\* and is anonymized, and the AnonVote rows of an (election, position,
\* candidate) are as many as the VoteChoice rows for it: one for each choice.
C4_CommittedChoicesAnonymized ==
    /\ \A vc \in db.VoteChoice :
           /\ vc.anonymized
           /\ \E b \in db.Ballot : <<b.user, b.election>> = vc.ballot
    /\ \A e \in ElectionIds, p \in PositionIds, c \in CandidateIds :
           CopiesIn([election |-> e, position |-> p, candidate |-> c], db.AnonVote)
               = Cardinality(ChoicesFor(db.VoteChoice, e, p, c))

\* a ballot with two choices is committed while another submission has
\* written a choice that is not committed yet
C4_Witness ==
    /\ \E b \in db.Ballot :
           Cardinality({vc \in db.VoteChoice : vc.ballot = <<b.user, b.election>>}) = 2
    /\ \E w \in Requests : tx[w].Ballot # {} /\ tx[w].VoteChoice # {}

\* C5: in every committed state a VoteReceipt exists for (voter, election)
\* exactly when a Ballot does, the Ballot names that receipt and no other
\* Ballot does; so an election has as many receipts as ballots.
C5_ReceiptIffBallot ==
    /\ \A k \in Keys : (RowsOf(db.VoteReceipt, k) # {}) <=> (RowsOf(db.Ballot, k) # {})
    /\ \A b \in db.Ballot :
           \E r \in db.VoteReceipt :
               /\ r.receipt_code = b.receipt
               /\ r.user = b.user /\ r.election = b.election
    /\ \A b1, b2 \in db.Ballot : b1.receipt = b2.receipt => b1 = b2
    /\ \A e \in ElectionIds :
           Cardinality({r \in db.VoteReceipt : r.election = e})
               = Cardinality({b \in db.Ballot : b.election = e})

\* one submission has committed its receipt and its ballot, and another was
\* rolled back by a storage failure after it had written rows
C5_Witness ==
    /\ Cardinality(db.VoteReceipt) = 1
    /\ Cardinality(db.Ballot) = 1
    /\ \E w \in Requests :
           pc[w] = "done" /\ req[w].raised = "DatabaseError" /\ req[w].rolled_back

\* the receipts that hold the presented string as their code
Stored(receipt_code) == {r \in db.VoteReceipt : r.receipt_code = receipt_code}

\* C6: for every receipt issued by a successful submission, in every later
\* state, verify(receipt_code) answers valid = true with the title of that
\* receipt's election and that receipt's creation time; the code a successful
\* submission returned is the code of a stored receipt of that voter; and an
\* answer valid = true was given for a stored receipt, with its own election.
C6_VerifyIssuedReceipt ==
    /\ \A r \in db.VoteReceipt :
           LET response == verify_result(r.receipt_code)
           IN /\ response.status = 200
              /\ response.valid
              /\ response.election = SchoolElection[r.election].title
              /\ response.voted_at = r.created_at
    /\ \A w \in Requests :
           (pc[w] = "done" /\ req[w].result = "Success")
               => Cardinality(Stored(req[w].receipt_code)) = 1
    /\ verify_response.response.status = 200
           => \E r \in Stored(verify_response.receipt_code) :
                  /\ verify_response.response.election = SchoolElection[r.election].title
                  /\ verify_response.response.voted_at = r.created_at

\* a receipt was verified as valid, of a voter who holds receipts of two
\* elections
C6_Witness ==
    /\ verify_response.response.status = 200
    /\ \E r \in Stored(verify_response.receipt_code) :
           \E other \in db.VoteReceipt :
               other.user = r.user /\ other.election # r.election

\* C7: for every string that is not the code of a stored receipt, of any
\* length, verify gives the one generic invalid answer (valid = false).
C7_NotStoredIsGenericInvalid ==
    (verify_response.response.status # 0 /\ Stored(verify_response.receipt_code) = {})
        => verify_response.response = Invalid404

\* the step taken is one by which request w leaves the stage it stands at
Leaves(w, stage) == pc[w] = stage /\ pc'[w] # stage

\* C8 (as stated): a submission of a voter who had a committed Ballot for the
\* election when it arrived ends with AlreadyVoted.
C8_HadBallotGetsAlreadyVoted ==
    \A w \in Requests :
        (pc[w] = "done" /\ req[w].had_ballot) => req[w].result = "AlreadyVoted"

\* C8 (amended): a submission of a voter who had a committed Ballot for the
\* election when it arrived is rejected and changes no row: by the rate limiter
\* with TooManyRequests, else at validation with ElectionNotActive when the
\* election is not active then, and with AlreadyVoted when it is.
C8_HadBallotRejected ==
    [][\A w \in Requests :
          /\ (Leaves(w, "pending") /\ req'[w].had_ballot)
                 => /\ db' = db /\ tx' = tx
                    /\ pc'[w] = "done" => req'[w].result = "TooManyRequests"
                    /\ pc'[w] # "done" => pc'[w] = "validate"
          /\ (Leaves(w, "validate") /\ req[w].had_ballot)
                 => /\ db' = db /\ tx' = tx
                    /\ pc'[w] = "done"
                    /\ req'[w].raised = None
                    /\ req'[w].result =
                           IF is_active_now(req[w].election_id)
                           THEN "AlreadyVoted" ELSE "ElectionNotActive"]_vars

\* a second submission of a voter was rejected with AlreadyVoted, the ballot
\* of the first being the only one
C8_Witness ==
    \E w \in Requests :
        /\ pc[w] = "done"
        /\ req[w].had_ballot
        /\ req[w].result = "AlreadyVoted"
        /\ Cardinality(db.Ballot) = 1
        /\ Cardinality(db.VoteReceipt) = 1

\* the election of request w exists, its flag is set, and the time is not
\* before its start
ExistsFlaggedStarted(w) ==
    /\ req[w].election_id \in DOMAIN SchoolElection
    /\ election_is_active[req[w].election_id]
    /\ SchoolElection[req[w].election_id].start_date <= now

\* C9 (as stated): a submission passes on to its writes only when the election
\* exists, its flag is set and the time lies in [start, end), the end excluded.
C9_WindowEndExcluded ==
    [][\A w \in Requests :
          (Leaves(w, "validate") /\ pc'[w] # "done")
              => /\ ExistsFlaggedStarted(w)
                 /\ now < SchoolElection[req[w].election_id].end_date]_vars

\* C9 (amended): a submission writes rows only after its validation has found
\* the election to exist, its flag set and the time in [start, end], the end
\* included; a validation that finds otherwise ends the submission with
\* ElectionNotActive, with nothing written; and rows are committed only by
\* a submission that passed this validation.
C9_WindowEndIncluded ==
    [][/\ \A w \in Requests :
              LET ok == /\ ExistsFlaggedStarted(w)
                        /\ now <= SchoolElection[req[w].election_id].end_date
              IN /\ (Leaves(w, "validate") /\ pc'[w] # "done") => ok
                 /\ (Leaves(w, "validate") /\ ~ok)
                        => /\ req'[w].result = "ElectionNotActive"
                           /\ db' = db /\ tx' = tx
                 /\ (pc[w] \notin TxnSteps /\ pc'[w] \in TxnSteps) => pc[w] = "validate"
                 /\ tx'[w] # tx[w] => pc[w] \in TxnSteps
       /\ db' # db => \E w \in Requests : pc[w] \in TxnSteps]_vars

\* a ballot is committed whose receipt was created at the very end of the
\* election's window, and a submission has ended with ElectionNotActive
C9_Witness ==
    /\ \E b \in db.Ballot, r \in db.VoteReceipt :
           /\ r.receipt_code = b.receipt
           /\ r.created_at = SchoolElection[b.election].end_date
    /\ \E w \in Requests : pc[w] = "done" /\ req[w].result = "ElectionNotActive"

\* C10: a submission commits only if every (position_id, candidate_id) pair
\* of its votes names a position of the election (an ElectionPosition row, at
\* the time the pair is looked up) and a candidate that is active for that
\* election and position.
C10_CommitsOnlyElectionPositions ==
    [][\A w \in Requests :
          (pc[w] = "log_activity" /\ pc'[w] = "done" /\ req'[w].result = "Success")
              => \A i \in 1..Len(req[w].votes) :
                     /\ req[w].votes[i].in_election
                     /\ Candidate_get(req[w].votes[i].candidate_id,
                                      req[w].election_id,
                                      req[w].votes[i].position_id)]_vars

\* the typed results of a failing submission
TypedFailures ==
    {"AlreadyVoted", "ElectionNotActive", "InvalidChoice", "TooManyRequests",
     "StorageFault"}

\* C11: every submission that fails ends with one of the typed results
\* AlreadyVoted, ElectionNotActive, InvalidChoice, TooManyRequests or
\* StorageFault.  Stated here for the failures that the statements of submit
\* raise themselves, with the storage working: a uniqueness constraint that
\* stops it counts among them.
C11_FailuresAreTyped ==
    \A w \in Requests :
        (pc[w] = "done" /\ req[w].result # "Success" /\ req[w].raised # "DatabaseError")
            => req[w].result \in TypedFailures

\* the choices with the voters renamed by the permutation pi
RenameVoters(pi, choices) ==
    {[vc EXCEPT !.ballot = <<pi[vc.ballot[1]], vc.ballot[2]>>] : vc \in choices}

\* the AnonVote rows that anonymizing each of the choices creates
RECURSIVE AnonVotesOf(_)
AnonVotesOf(choices) ==
    IF choices = {} THEN EmptyBag
    ELSE LET vc == CHOOSE c \in choices : TRUE
         IN anonymize([vc EXCEPT !.anonymized = FALSE]).created
                (+) AnonVotesOf(choices \ {vc})

\* C12: the AnonVote rows do not depend on which voter cast which ballot: for
\* every permutation of the voters, the committed choices with the voters
\* renamed give the very AnonVote rows of the store; and an AnonVote row holds
\* an election, a position and a candidate, and nothing of voter or ballot.
C12_AnonVotesIgnoreVoters ==
    /\ \A row \in BagToSet(db.AnonVote) :
           DOMAIN row = {"election", "position", "candidate"}
    /\ \A pi \in Permutations(Users) :
           AnonVotesOf(RenameVoters(pi, db.VoteChoice)) = db.AnonVote

\* two voters have committed ballots in one election, one of them with a
\* choice the other did not make
C12_Witness ==
    \E b1, b2 \in db.Ballot :
        /\ b1.user # b2.user /\ b1.election = b2.election
        /\ \E vc \in db.VoteChoice :
               /\ vc.ballot = <<b1.user, b1.election>>
               /\ ~\E other \in db.VoteChoice :
                      /\ other.ballot = <<b2.user, b2.election>>
                      /\ other.position = vc.position
                      /\ other.candidate = vc.candidate

\* the AnonVote rows of the request for (election, position, candidate)
RowsFor(candidate) ==
    CopiesIn([election |-> tally.election, position |-> tally.position,
              candidate |-> candidate], tally.AnonVote)

RECURSIVE SumCounts(_)
SumCounts(entries) ==
    IF entries = <<>> THEN 0 ELSE Head(entries).vote_count + SumCounts(Tail(entries))

\* the index of a candidate in the list as it was before sorting
ListedAt(candidate_id) ==
    CHOOSE k \in 1..Len(tally.built) : tally.built[k].candidate_id = candidate_id

\* C13: every candidate of the position is listed once, with vote_count the
\* number of AnonVote rows for (election, position, candidate) and percentage
\* vote_count / (sum of the position's vote counts) x 100 to the nearest
\* hundredth, or 0 for every candidate when that sum is 0.
C13_CountsAndPercentages ==
    tally.called =>
        LET out == tally.candidates
            total == SumCounts(out)
        IN /\ Len(out) = Len(tally.position_candidates)
           /\ \A c \in 1..Len(tally.position_candidates) :
                  \E k \in 1..Len(out) : out[k].candidate_id = tally.position_candidates[c]
           /\ \A k \in 1..Len(out) :
                  /\ out[k].vote_count = RowsFor(out[k].candidate_id)
                  /\ IF total = 0
                     THEN out[k].percentage = 0
                     ELSE LET d == out[k].percentage * total - out[k].vote_count * 10000
                          IN 2 * d <= total /\ -2 * d <= total

\* a candidate without votes is listed beside one whose percentage is not a
\* whole number of hundredths before rounding, and rows of another position
\* and another election are in the table
C13_Witness ==
    /\ tally.called
    /\ \E k \in 1..Len(tally.candidates) : tally.candidates[k].vote_count = 0
    /\ \E k \in 1..Len(tally.candidates) : tally.candidates[k].percentage = 6667
    /\ BagCardinality(tally.AnonVote) = SumCounts(tally.candidates) + 2

C15_TiesKeepListedOrder ==
    tally.called =>
        \A j, k \in 1..Len(tally.candidates) :
            (j < k /\ tally.candidates[j].vote_count = tally.candidates[k].vote_count)
                => ListedAt(tally.candidates[j].candidate_id)
                       < ListedAt(tally.candidates[k].candidate_id)

\* C16: is_winner is set only on the entry of rank 1, only with a vote_count
\* above 0 and only after the election's end time has passed; before that no
\* entry has it.
C16_WinnerOnlyAfterEnd ==
    tally.called =>
        /\ \A k \in 1..Len(tally.candidates) :
               tally.candidates[k].is_winner
                   => /\ tally.candidates[k].rank = 1
                      /\ tally.candidates[k].vote_count > 0
                      /\ now > SchoolElection[tally.election].end_date
        /\ now <= SchoolElection[tally.election].end_date
               => \A k \in 1..Len(tally.candidates) : ~tally.candidates[k].is_winner

\* the results of an election that has not ended show a leading candidate with
\* votes
C16_Witness ==
    /\ tally.called
    /\ now <= SchoolElection[tally.election].end_date
    /\ Len(tally.candidates) >= 2
    /\ tally.candidates[1].vote_count > tally.candidates[2].vote_count

\* C21: in every state, for every voter and election, my_vote_status answers
\* has_voted = TRUE exactly when the store has a committed Ballot of the voter
\* for the election, and the receipt code it then shows is the masked form of
\* that ballot's receipt, not the code itself.
C21_StatusIffCommittedBallot ==
    \A user \in Users, election_id \in DOMAIN SchoolElection :
        LET response == vote_status(user, election_id)
            ballots == {b \in db.Ballot : b.user = user /\ b.election = election_id}
        IN /\ response.status = 200
           /\ response.has_voted <=> ballots # {}
           /\ response.has_voted
                  => \A b \in ballots :
                         /\ response.receipt_code # b.receipt
                         /\ response.receipt_code.head8 = b.receipt.id
                         /\ response.receipt_code.tail8 = b.receipt.id
                         /\ response.receipt_code.len < b.receipt.len

\* a voter whose submission succeeded was told has_voted, while another
\* submission had written its receipt but not committed
C21_Witness ==
    /\ vote_status_response.response.status = 200
    /\ vote_status_response.response.has_voted
    /\ \E w \in Requests : pc[w] = "done" /\ req[w].result = "Success"
    /\ \E w \in Requests : tx[w].VoteReceipt # {}

\* a request for statistics is answered in this step
StatisticsAnswered == ~statistics_response.called /\ statistics_response'.called

\* the number of AnonVote rows of an election, or of one of its positions
AnonVotesIn(election_id, positions) ==
    LET rows == {row \in BagToSet(db.AnonVote) :
                    row.election = election_id /\ row.position \in positions}
    IN BagCardinality([row \in rows |-> CopiesIn(row, db.AnonVote)])

\* C22: the turnout reported by either statistics accessor for an election is
\* (voters with a Ballot for it) / (eligible voters) x 100 to the nearest
\* hundredth, and 0 when there is no eligible voter or no ballot.
C22_TurnoutIsVotersOverEligible ==
    [][(StatisticsAnswered /\ statistics_response'.response.status = 200
            /\ statistics_response'.election_id \in DOMAIN SchoolElection)
          => LET turnout == statistics_response'.response.turnout_percentage
                 voters == Cardinality({b \in db.Ballot :
                               b.election = statistics_response'.election_id})
                 eligible == Cardinality(RegisteredVoters)
                 d == turnout * eligible - voters * 10000
             IN IF eligible = 0 \/ voters = 0
                THEN turnout = 0
                ELSE 2 * d <= eligible /\ -2 * d <= eligible]_vars

\* C23: the statistics view lists one entry for every position of the election
\* that has AnonVote rows, each with total_votes the number of those rows, and
\* the entries' total_votes add up to the total_votes reported.
C23_EntryPerPositionWithVotes ==
    [][(StatisticsAnswered
            /\ statistics_response'.accessor = "ResultsViewSet.statistics"
            /\ statistics_response'.response.status = 200)
          => LET r == statistics_response'.response
                 e == statistics_response'.election_id
                 voted == {p \in PositionIds : AnonVotesIn(e, {p}) > 0}
                 entries == r.position_statistics
             IN /\ \A p \in voted :
                       \E k \in 1..Len(entries) :
                           /\ entries[k].position_id = p
                           /\ entries[k].total_votes = AnonVotesIn(e, {p})
                /\ r.total_votes = AnonVotesIn(e, PositionIds)
                /\ r.total_votes
                       = AnonVotesIn(e, {entries[k].position_id : k \in 1..Len(entries)})]_vars

\* C24: a request for the statistics of an election id without a row is
\* answered with the result structure, all counts and the turnout 0 and no
\* per-position entry.
C24_MissingElectionGivesZeros ==
    [][(StatisticsAnswered
            /\ statistics_response'.accessor = "ResultsViewSet.statistics"
            /\ statistics_response'.election_id \notin DOMAIN SchoolElection)
          => LET r == statistics_response'.response
             IN /\ r.status = 200
                /\ r.total_voters = 0
                /\ r.total_votes = 0
                /\ r.turnout_percentage = 0
                /\ r.position_statistics = <<>>]_vars

\* C25: a further call of anonymize on a choice that submit has anonymized
\* changes nothing: the call, alone or in the bulk action of the administrator,
\* leaves every table as it was, every committed choice anonymized, and the AnonVote rows of an
\* (election, position, candidate) as many as the choices for it.
C25_AnonymizeIdempotent ==
    [][admin_ops' # admin_ops
          => /\ db' = db
             /\ \A vc \in db'.VoteChoice : vc.anonymized
             /\ \A vc \in db'.VoteChoice :
                    CopiesIn([election |-> vc.ballot[2], position |-> vc.position,
                              candidate |-> vc.candidate], db'.AnonVote)
                        = Cardinality(ChoicesFor(db'.VoteChoice, vc.ballot[2],
                                                 vc.position, vc.candidate))]_vars

\* anonymize has been called again on committed choices, two of them for the
\* same candidate
C25_Witness ==
    /\ admin_ops > 0
    /\ \E vc \in db.VoteChoice :
           Cardinality(ChoicesFor(db.VoteChoice, vc.ballot[2], vc.position,
                                  vc.candidate)) = 2

\* C26: no step removes or changes an AnonVote row or removes a Ballot: the
\* rows of every (election, position, candidate) and the ballots of every
\* election only become more.
C26_AnonVotesOnlyAdded ==
    [][/\ \A row \in BagToSet(db.AnonVote) :
              CopiesIn(row, db'.AnonVote) >= CopiesIn(row, db.AnonVote)
       /\ db.Ballot \subseteq db'.Ballot]_vars

\* the turnout of voters among registered, by its distance to the quotient
IsTurnout(value, voters, registered) ==
    IF registered = 0 THEN value = 0
    ELSE LET d == value * registered - voters * 10000
         IN 2 * d <= registered /\ -2 * d <= registered

\* C27: every call of the memoized function returns the function's value for
\* its arguments; the function runs in a call exactly when it has not run for
\* these arguments since the last cache_clear, so at most once per argument
\* tuple between two clears, again for other arguments, and again after a
\* clear.
C27_MemoizedCalls ==
    [][(memo'.calls # memo.calls /\ memo'.called)
          => /\ IsTurnout(memo'.result, memo'.args[1], memo'.args[2])
             /\ memo'.ran <=> memo'.args \notin memo.executed
             /\ memo'.executed = memo.executed \cup {memo'.args}]_vars

\* the fourth operation was a call that ran the function, which since the
\* last clear has run for two argument tuples with the same first argument
C27_Witness ==
    /\ memo.calls = 4
    /\ memo.called
    /\ memo.ran
    /\ Cardinality(memo.executed) = 2
    /\ \A a \in memo.executed : a[1] = 1

\* C28: once the time is after the end of an election, no step adds a Ballot
\* or an AnonVote row of that election to the store.
C28_FinishedElectionIsFinal ==
    [][\A e \in DOMAIN SchoolElection :
          now > SchoolElection[e].end_date
              => /\ {b \in db'.Ballot : b.election = e} = {b \in db.Ballot : b.election = e}
                 /\ \A p \in PositionIds, c \in CandidateIds :
                        CopiesIn([election |-> e, position |-> p, candidate |-> c],
                                 db'.AnonVote)
                            = CopiesIn([election |-> e, position |-> p, candidate |-> c],
                                       db.AnonVote)]_vars

\* C29: the entries returned for a position have at most one is_winner.
C29_AtMostOneWinner ==
    tally.called =>
        Cardinality({k \in 1..Len(tally.candidates) : tally.candidates[k].is_winner}) <= 1

\* the election has ended, two candidates are tied for the highest count, and
\* one of them is the winner
C29_Witness ==
    /\ tally.called
    /\ Len(tally.candidates) >= 2
    /\ tally.candidates[1].is_winner
    /\ tally.candidates[2].vote_count = tally.candidates[1].vote_count

\* the committed choices of the ballot of a voter in an election
ChoicesOfBallot(user, election_id) ==
    {vc \in db.VoteChoice : vc.ballot = <<user, election_id>>}

Returned(name, args, computed) == cache_result(name, args, computed).result

BallotsOf(e) == {b \in db.Ballot : b.election = e}

\* C17: once a successful submission has committed and returned, the cached
\* accessors of its election return values that count its ballot: the voting
\* status of the voter says has_voted, and the election statistics count every
\* committed ballot of the election.
C17_NoStaleAggregateAfterSubmit ==
    \A b \in db.Ballot :
        /\ Returned("get_user_voting_status", <<b.user, b.election>>,
                    user_voting_status(b.user, b.election)).has_voted
        /\ Returned("get_election_statistics", <<b.election>>,
                    election_statistics(b.election)).completed_ballots
               = Cardinality(BallotsOf(b.election))

\* the check of a submission that the durable store alone decides
DurableOutcome(user, e) ==
    IF e \notin DOMAIN SchoolElection \/ ~is_active_now(e) THEN "ElectionNotActive"
    ELSE IF \E b \in db.Ballot : b.user = user /\ b.election = e THEN "AlreadyVoted"
    ELSE "Accepted"

\* C18: the outcome of the validation of a submission is the one the durable
\* store decides, whatever the cache holds: it passes exactly when the election
\* is active and the store has no ballot of the voter in it, it is rejected
\* with the error the store decides otherwise, and a choice is accepted only
\* if its candidate is an active candidate of the election and position in the
\* store.
C18_OutcomeFromDurableStore ==
    [][\A w \in Requests :
          /\ Leaves(w, "validate")
                 => LET outcome == DurableOutcome(req[w].user, req[w].election_id)
                    IN IF outcome = "Accepted"
                       THEN pc'[w] = "create_receipt"
                       ELSE pc'[w] = "done" /\ req'[w].result = outcome
          /\ (pc[w] = "votes_loop" /\ pc'[w] = "votes_loop"
                  /\ Len(req'[w].votes) > Len(req[w].votes))
                 => LET v == req'[w].votes[Len(req'[w].votes)]
                    IN /\ v.position_id \in SchoolPosition
                       /\ Candidate_get(v.candidate_id, req[w].election_id, v.position_id)]_vars

\* a submission was rejected as AlreadyVoted while the cache held a stale
\* has_voted = FALSE for a voter whose ballot is in the store
C18_Witness ==
    \E u \in Users, e \in DOMAIN SchoolElection :
        /\ aggregate_key("get_user_voting_status", <<u, e>>) \in DOMAIN cache
        /\ ~cache[aggregate_key("get_user_voting_status", <<u, e>>)].has_voted
        /\ \E b \in db.Ballot : b.user = u /\ b.election = e
        /\ \E w \in Requests :
               pc[w] = "done" /\ req[w].result = "AlreadyVoted" /\ req[w].had_ballot

\* C19: a submission of a voter whose admitted attempts in the rolling window
\* have reached the threshold is not admitted: it is rejected with
\* TooManyRequests, before any validation or write, whatever the other
\* submissions do.
C19_OverThresholdRejected ==
    [][\A w \in Requests :
          Leaves(w, "pending")
              => /\ db' = db /\ tx' = tx
                 /\ pc'[w] = "done" => req'[w].result = "TooManyRequests"
                 /\ pc'[w] # "done"
                        => Len(throttle_history(attempts[req'[w].user], now))
                               < ThrottleNum]_vars

\* the 'vote' activity records of a voter and an election
VoteRecords(user, election) ==
    {entry \in BagToSet(db.ActivityLog) :
        entry.action = "vote" /\ entry.user = user /\ entry.resource_id = election}

====
